---- MODULE Spec2Model ----
(***************************************************************************)
(* Model of the trading engine of src/src/ea/sniper.py (class Sniper) and *)
(* of the parts of src/src/ea/client.py (class EAClient) it calls.        *)
(*                                                                         *)
(* The program runs on one asyncio event loop: a task runs without         *)
(* interruption from one `await` to the next.  Every action below is one   *)
(* such run: it resumes a task at the await it is suspended on, with the   *)
(* outcome of that await (a response, an exception, a cancellation), and   *)
(* executes the code up to the next await.  The public methods start,     *)
(* stop, pause and resume are called one after the other by one caller.   *)
(* CancelledError is a BaseException (Python >= 3.8): `except Exception`  *)
(* lets it through, a bare `except:` catches it.                           *)
(***************************************************************************)
EXTENDS Integers, Sequences, FiniteSets, TLC

VARIABLES
    config,        \* self.config (SniperConfig and the three callbacks), fixed at construction
    targets,       \* self.targets
    state,         \* self.state
    stats,         \* self.stats
    stop_event,    \* self._stop_event.is_set()
    hourly,        \* self._hourly_searches
    search_task,   \* self._search_task: 0 is None, i is the i-th search task created
    relist_task,   \* self._relist_task: 0 is None, i is the i-th relist task created
    stask,         \* the search-loop tasks ever created, in creation order
    rtask,         \* the relist-loop tasks ever created, in creation order
    ctl,           \* where the caller of the public API is: idle, or inside stop()
    issued,        \* the MarketClient call started by the last step (NoCall if none)
    last,          \* the last step: whose it was, and the exception its run handled
    quiesced       \* TRUE from the return of stop() to the next launch by start()

vars == <<config, targets, state, stats, stop_event, hourly, search_task,
          relist_task, stask, rtask, ctl, issued, last, quiesced>>

----------------------------------------------------------------------------
(* Bounds of the model *)

\* Most start() calls that launch tasks in one behaviour.
MaxLaunch == 1
\* Most searches issued in one behaviour (stats.total_searches is unbounded).
MaxSearches == 2
\* Longest list of listings one search returns.
MaxResults == 2
\* Highest price and balance the market reports.
MaxPrice == 3
\* Most relist ticks that collect proceeds in one behaviour (stats.total_sales is unbounded).
MaxSales == 1
\* The ids of the registered targets are at most MaxAdds.
MaxAdds == 3
\* The asks a target fixes are 1..MaxAsk: every tier of the price steps, and
\* two steps into the last.
MaxAsk == 101000

----------------------------------------------------------------------------
(* Data *)

States == {"stopped", "running", "paused", "error"}

\* SnipeTarget (the per-target counters are not part of the record); id tells
\* the objects apart: the later of two registered targets has the greater id.
Target(name, max_buy_price, sell_price, enabled, priority) ==
    [name |-> name, max_buy_price |-> max_buy_price, sell_price |-> sell_price,
     enabled |-> enabled, priority |-> priority, id |-> 0]

NoTarget == Target("", 0, 0, FALSE, 0)

\* Player: the fields of a listing the engine reads.
Player(trade_id, buy_now_price) == [trade_id |-> trade_id, buy_now_price |-> buy_now_price]

\* SniperStats(); started_at: FALSE is None, TRUE a timestamp.
NewStats == [started_at |-> FALSE,
             total_searches |-> 0, total_purchases |-> 0, total_sales |-> 0,
             total_spent |-> 0, total_earned |-> 0, failed_purchases |-> 0]

\* SniperStats.profit
profit(s) == s.total_earned - s.total_spent

\* Mutant: the division is not guarded.
roi_unguarded(s) == [num |-> profit(s) * 100, den |-> s.total_spent]

\* SniperStats.roi, as the fraction num/den it rounds to a float: 0.0 if
\* nothing was spent, else (profit / total_spent) * 100.
roi(s) ==
    IF s.total_spent = 0 THEN [num |-> 0, den |-> 1]
    ELSE [num |-> profit(s) * 100, den |-> s.total_spent]

NoCall == [kind |-> "none", task |-> 0, op |-> "none", trade_id |-> 0, price |-> 0, start_price |-> 0]

\* What is observed of a step: the public method or the loop ("search",
\* "relist") that took it, the task, and the exception raised into the loop's try block.
Event(by, task, exc) == [by |-> by, task |-> task, exc |-> exc]

\* The local variables of one _search_loop task (with the frame of the
\* _search_and_buy call it is in), and what is observed of it.
NewSearchTask ==
    [pc |-> "new",            \* the await the task is suspended on
     cancel |-> FALSE,        \* Task.cancel() was called and CancelledError is not yet delivered
     result |-> "none",       \* how the task ended: ok, cancelled, exception
     live |-> FALSE,          \* the for loop iterates the list self.targets refers to
     lst |-> <<>>,            \* the list the for loop iterates, when self.targets was rebound
     ti |-> 0,                \* position of the for loop's iterator
     tradepile |-> 0,         \* len(tradepile) as _check_limits last read it in this iteration
     target |-> NoTarget,     \* target
     snipeable |-> <<>>,      \* snipeable
     k |-> 0,                 \* position of `for player in snipeable`
     coins |-> 0,             \* coins
     consecutive |-> 0,       \* consecutive_purchases
     bought |-> FALSE,        \* bought (the value _search_and_buy returned)
     \* observation only:
     fatal_at |-> "none",     \* the call of this task that last got a fatal response
     nerr |-> 0,              \* times this task invoked on_error
     call_bought |-> 0,       \* successful buy_now of the current _search_and_buy call
     call_failed |-> 0,       \* failed buy_now of the current _search_and_buy call
     low_seen |-> FALSE,      \* the current call saw coins < price + reserve
     since_pause |-> 0,       \* successful buy_now of this task since its last cooldown sleep
     searched |-> <<>>,       \* the targets searched so far in the current run of the for loop
     was_cancelled |-> FALSE] \* Task.cancel() was called on the task while it was not done

NewRelistTask ==
    [pc |-> "new", cancel |-> FALSE, result |-> "none",
     earned |-> 0,            \* the local earned: what the last clear_sold returned
     sale_args |-> <<>>,      \* the arguments of the last call of on_sale in this tick
     was_cancelled |-> FALSE]

----------------------------------------------------------------------------
(* EAClient: what the engine sees of a MarketClient call *)

\* How an HTTP exchange ends: a status code, or a transport failure.
Statuses == {"200", "401", "426", "429", "458", "500", "neterr"}

\* EAClient._request: the exception the exchange raises ("none": the JSON body is returned).
request(status) ==
    CASE status = "200" -> "none"
      [] status = "401" -> "AuthError"
      [] status = "426" -> "CaptchaError"
      [] status = "429" -> "RateLimitError"
      [] status = "458" -> "TransferBanError"
      [] status = "neterr" -> "NetworkError"
      [] OTHER -> "EAError"

\* What the await inside a client method raises into the task: the pending
\* CancelledError if Task.cancel() was called, else what _request raises.
Raised(t, status) == IF t.cancel THEN "CancelledError" ELSE request(status)

\* `except Exception` catches it.
IsException(exc) == exc \notin {"none", "CancelledError"}

Return(v) == [raise |-> "none", value |-> v]
Raise(exc) == [raise |-> exc, value |-> 0]

\* Methods without a try block: get_credits, get_tradepile, get_unassigned, search.
client_propagating(exc, body) == IF exc = "none" THEN Return(body) ELSE Raise(exc)

\* EAClient.buy_now: True iff the response carries auctionInfo; `except Exception` gives False.
client_buy_now(exc, auctionInfo) ==
    IF exc = "CancelledError" THEN Raise(exc)
    ELSE IF exc # "none" THEN Return(FALSE)
    ELSE Return(auctionInfo)

\* EAClient.list_item: the new trade id (0: None); `except Exception` gives None.
client_list_item(exc, id) ==
    IF exc = "CancelledError" THEN Raise(exc)
    ELSE IF exc # "none" THEN Return(0)
    ELSE Return(id)

\* EAClient.send_to_tradepile: bare `except:` gives False, also on CancelledError.
client_send_to_tradepile(exc, moved) ==
    IF exc # "none" THEN Return(FALSE) ELSE Return(moved)

\* EAClient.clear_sold: the proceeds; bare `except:` gives 0, also on CancelledError.
client_clear_sold(exc, coins) ==
    IF exc # "none" THEN Return(0) ELSE Return(coins)

\* EAClient.relist_all: the number relisted; bare `except:` gives 0, also on CancelledError.
client_relist_all(exc, n) ==
    IF exc # "none" THEN Return(0) ELSE Return(n)

----------------------------------------------------------------------------
(* Pure parts of Sniper *)

\* Mutant: the price is rounded to the multiple above it.
round_price_up(price) ==
    IF price < 1000 THEN (price \div 50 + 1) * 50
    ELSE IF price < 10000 THEN (price \div 100 + 1) * 100
    ELSE IF price < 50000 THEN (price \div 250 + 1) * 250
    ELSE IF price < 100000 THEN (price \div 500 + 1) * 500
    ELSE (price \div 1000 + 1) * 1000

\* Mutant: the price is rounded to the nearest multiple.
round_price_nearest(price) ==
    IF price < 1000 THEN ((price + 25) \div 50) * 50
    ELSE IF price < 10000 THEN ((price + 50) \div 100) * 100
    ELSE IF price < 50000 THEN ((price + 125) \div 250) * 250
    ELSE IF price < 100000 THEN ((price + 250) \div 500) * 500
    ELSE ((price + 500) \div 1000) * 1000

\* Sniper._round_price
round_price(price) ==
    IF price < 1000 THEN (price \div 50) * 50
    ELSE IF price < 10000 THEN (price \div 100) * 100
    ELSE IF price < 50000 THEN (price \div 250) * 250
    ELSE IF price < 100000 THEN (price \div 500) * 500
    ELSE (price \div 1000) * 1000

\* Mutant: no markup is applied.
markup_none(p) == p

\* int(player.buy_now_price * self.config.sell_markup), sell_markup = 1.10:
\* the double nearest 1.10 is above 1.1, so the product truncates to floor(11p/10).
markup_price(p) == (p * 11) \div 10

\* int(sell_price * 0.9): the double nearest 0.9 is above 0.9.
start_of(sell_price) == (sell_price * 9) \div 10

\* _auto_sell_player, lines 328-336: the ask and the starting bid.
sell_price_of(target, player) ==
    round_price(IF target.sell_price # 0 THEN target.sell_price
                ELSE markup_price(player.buy_now_price))

\* Mutant: the starting bid is not rounded.
start_price_unrounded(sell_price) == start_of(sell_price)

\* Line 336: the starting bid.
start_price_of(sell_price) == round_price(start_of(sell_price))

\* Mutant: the price ceiling is not applied.
snipeable_no_ceiling(players, target) ==
    SelectSeq(players, LAMBDA p : p.buy_now_price > 0)

\* _search_and_buy, lines 266-269: the listings kept, in the market's order.
snipeable_of(players, target) ==
    SelectSeq(players, LAMBDA p : p.buy_now_price > 0
                                  /\ p.buy_now_price <= target.max_buy_price)

\* _search_and_buy, line 278 (negated): the balance covers the price and the reserve.
enough_coins(coins, price) == ~(coins < price + config.min_coins_reserve)

\* The list the for loop of task record t iterates.
CurList(t) == IF t.live THEN targets ELSE t.lst

\* Position of the next enabled target after position i of lst, 0 if none
\* (lines 209-211: disabled targets are skipped).
RECURSIVE NextEnabled(_, _)
NextEnabled(lst, i) ==
    IF i + 1 > Len(lst) THEN 0
    ELSE IF lst[i + 1].enabled THEN i + 1
    ELSE NextEnabled(lst, i + 1)

----------------------------------------------------------------------------
(* Sniper._search_loop and Sniper._search_and_buy, as runs between awaits. *)
(* A run works on a context c: the task's record c.t, the shared fields    *)
(* it may write (state, stats, hourly) and the call it starts (c.call).    *)

Ctx(t) == [t |-> t, state |-> state, stats |-> stats, hourly |-> hourly, call |-> NoCall,
           exc |-> "none"]

\* Suspend at a sleep or a callback.
At(c, pc) == [c EXCEPT !.t.pc = pc]

\* Start a MarketClient call and suspend on it.
Call(c, op, trade_id, price, start_price) ==
    [c EXCEPT !.t.pc = op,
              !.call = [NoCall EXCEPT !.op = op, !.trade_id = trade_id,
                                      !.price = price, !.start_price = start_price]]

\* The record without the frame of the last _search_and_buy call.  (The frame
\* is kept after the call returns, until the next call or the end of the for
\* loop: nothing reads it, it shows what the call did.)
LeaveCall(t) ==
    [t EXCEPT !.target = NoTarget, !.snipeable = <<>>, !.k = 0, !.coins = 0,
              !.bought = FALSE, !.call_bought = 0, !.call_failed = 0,
              !.low_seen = FALSE]

\* An exception unwinds the try block of the loop, or the for loop ends.
Unwind(t) == [LeaveCall(t) EXCEPT !.live = FALSE, !.lst = <<>>, !.ti = 0, !.searched = <<>>]

\* The task ends.
Finish(c, res) ==
    [c EXCEPT !.t = [NewSearchTask EXCEPT !.pc = "done", !.result = res,
                                          !.fatal_at = c.t.fatal_at,
                                          !.nerr = c.t.nerr]]

\* Mutant: the fatal handlers do not leave the loop.
handle_no_break(c, exc) ==
    LET u == [c EXCEPT !.t = Unwind(c.t), !.exc = exc] IN
    CASE exc = "CancelledError" -> Finish(u, "cancelled")
      [] exc \in {"CaptchaError", "TransferBanError"} ->
            At([u EXCEPT !.state = "error", !.t.nerr = @ + 1], "error_sleep")
      [] exc = "RateLimitError" -> At(u, "rate_sleep")
      [] OTHER -> At(u, "error_sleep")

\* Mutant: there is no `except Exception` clause; the exception ends the task.
handle_no_catch_all(c, exc) ==
    LET u == [c EXCEPT !.t = Unwind(c.t), !.exc = exc] IN
    CASE exc = "CancelledError" -> Finish(u, "cancelled")
      [] exc \in {"CaptchaError", "TransferBanError"} ->
            IF config.on_error
            THEN At([u EXCEPT !.state = "error", !.t.nerr = @ + 1], "on_error")
            ELSE Finish([u EXCEPT !.state = "error"], "ok")
      [] exc = "RateLimitError" -> At(u, "rate_sleep")
      [] OTHER -> Finish(u, "exception")

\* Lines 231-251: the except clauses of _search_loop, for an exception raised in the try block.
handle(c, exc) ==
    LET u == [c EXCEPT !.t = Unwind(c.t), !.exc = exc] IN
    CASE exc = "CancelledError" -> Finish(u, "cancelled")
      [] exc \in {"CaptchaError", "TransferBanError"} ->
            IF config.on_error
            THEN At([u EXCEPT !.state = "error", !.t.nerr = @ + 1], "on_error")
            ELSE Finish([u EXCEPT !.state = "error"], "ok")
      [] exc = "RateLimitError" -> At(u, "rate_sleep")
      [] OTHER -> At(u, "error_sleep")

\* Mutant: the hourly cap is not looked at.
check_limits_no_hourly(c, elapsed) ==
    IF c.stats.total_purchases >= config.max_purchases THEN At(c, "limit_sleep")
    ELSE LET d == IF elapsed THEN [c EXCEPT !.hourly = 0] ELSE c IN
         Call(d, "get_tradepile", 0, 0, 0)

\* Lines 382-405, _check_limits up to its await; elapsed: 3600 s have passed since _hour_start.
check_limits(c, elapsed) ==
    IF c.stats.total_purchases >= config.max_purchases THEN At(c, "limit_sleep")
    ELSE LET d == IF elapsed THEN [c EXCEPT !.hourly = 0] ELSE c IN
         IF d.hourly >= config.max_searches_per_hour THEN At(d, "limit_sleep")
         ELSE Call(d, "get_tradepile", 0, 0, 0)

\* Lines 197-206: the head of the while loop.
search_loop_top(c, elapsed) ==
    IF stop_event THEN Finish(c, "ok")
    ELSE IF c.state # "running" THEN At(c, "poll_sleep")
    ELSE check_limits([c EXCEPT !.t.tradepile = 0], elapsed)

\* Lines 255-260: _search_and_buy up to its first await.
search_and_buy(c, target) ==
    Call([c EXCEPT !.t = [LeaveCall(c.t) EXCEPT !.target = target,
                                                !.searched = Append(@, target)],
                   !.stats.total_searches = @ + 1,
                   !.hourly = @ + 1],
         "search", 0, 0, 0)

\* Lines 209-217: the for loop takes its next target.
for_next(c, elapsed) ==
    LET lst == CurList(c.t)
        j == NextEnabled(lst, c.t.ti)
    IN  IF j = 0 \/ stop_event
        THEN search_loop_top([c EXCEPT !.t = Unwind(c.t)], elapsed)
        ELSE search_and_buy([c EXCEPT !.t.ti = j], lst[j])

\* Lines 400-405 and 204-209: get_tradepile answered with n items; elapsed is
\* read only if no target is enabled and the while loop comes round at once.
tradepile_return(c, n, elapsed) ==
    IF n >= config.max_active_sales THEN At([c EXCEPT !.t.tradepile = n], "limit_sleep")
    ELSE for_next([c EXCEPT !.t.tradepile = n, !.t.live = TRUE, !.t.lst = <<>>, !.t.ti = 0],
                  elapsed)

\* Lines 219-229: _search_and_buy returned.
after_search_and_buy(c, bought) ==
    LET d == [c EXCEPT !.t.bought = bought] IN
    IF bought
    THEN IF d.t.consecutive + 1 >= config.pause_after_purchases
         THEN At([d EXCEPT !.t.consecutive = @ + 1], "pause_sleep")
         ELSE At([d EXCEPT !.t.consecutive = @ + 1], "interval_sleep")
    ELSE At(d, "interval_sleep")

\* Lines 275-277: the head of `for player in snipeable`.
buy_loop(c) ==
    IF c.t.k > Len(c.t.snipeable) THEN after_search_and_buy(c, FALSE)
    ELSE Call(c, "get_credits", 0, 0, 0)

\* Lines 262-273: search answered with players.
search_return(c, players) ==
    LET sn == snipeable_of(players, c.t.target) IN
    IF players = <<>> THEN after_search_and_buy(c, FALSE)
    ELSE buy_loop([c EXCEPT !.t.snipeable = sn, !.t.k = 1])

\* Line 283: the price passed to buy_now.
buy_price(t, player) == player.buy_now_price

\* Mutant: a balance below price + reserve skips the candidate only.
credits_return_skip(c, coins) ==
    LET player == c.t.snipeable[c.t.k] IN
    IF ~enough_coins(coins, player.buy_now_price)
    THEN At([c EXCEPT !.t.low_seen = TRUE], "buy_delay")
    ELSE Call([c EXCEPT !.t.coins = coins], "buy_now",
              player.trade_id, buy_price(c.t, player), 0)

\* Lines 277-283: get_credits answered with coins.
credits_return(c, coins) ==
    LET player == c.t.snipeable[c.t.k] IN
    IF ~enough_coins(coins, player.buy_now_price)
    THEN after_search_and_buy([c EXCEPT !.t.low_seen = TRUE], FALSE)
    ELSE Call([c EXCEPT !.t.coins = coins], "buy_now",
              player.trade_id, buy_price(c.t, player), 0)

\* Lines 299-303: after the purchase callback.
after_purchase(c) ==
    IF config.auto_sell THEN Call(c, "get_unassigned", 0, 0, 0)
    ELSE after_search_and_buy(c, TRUE)

\* Mutant: a successful buy does not return; the loop goes on to the next candidate.
buy_return_greedy(c, success) ==
    LET player == c.t.snipeable[c.t.k] IN
    IF success
    THEN At([c EXCEPT !.stats.total_purchases = @ + 1,
                      !.stats.total_spent = @ + player.buy_now_price,
                      !.t.call_bought = @ + 1, !.t.since_pause = @ + 1], "buy_delay")
    ELSE At([c EXCEPT !.stats.failed_purchases = @ + 1,
                      !.t.call_failed = @ + 1], "buy_delay")

\* Lines 285-307: buy_now returned success.
buy_return(c, success) ==
    LET player == c.t.snipeable[c.t.k] IN
    IF success
    THEN LET d == [c EXCEPT !.stats.total_purchases = @ + 1,
                            !.stats.total_spent = @ + player.buy_now_price,
                            !.t.call_bought = @ + 1, !.t.since_pause = @ + 1]
         IN  IF config.on_purchase THEN At(d, "on_purchase") ELSE after_purchase(d)
    ELSE At([c EXCEPT !.stats.failed_purchases = @ + 1,
                      !.t.call_failed = @ + 1], "buy_delay")

\* Lines 307 and 275: after the buy delay, the next candidate.
buy_delay_wake(c) == buy_loop([c EXCEPT !.t.k = @ + 1])

\* Lines 314-325: get_unassigned answered; found: an item has the player's resourceId.
unassigned_return(c, found) ==
    IF found THEN Call(c, "send_to_tradepile", 0, 0, 0)
    ELSE after_search_and_buy(c, TRUE)

\* Lines 328-344: after the settle sleep, the item is listed.
settle_wake(c) ==
    LET player == c.t.snipeable[c.t.k]
        sell_price == sell_price_of(c.t.target, player)
    IN  Call(c, "list_item", 0, sell_price, start_price_of(sell_price))

\* Lines 225-229: after the cooldown sleep.
pause_wake(c) == At([c EXCEPT !.t.consecutive = 0, !.t.since_pause = 0], "interval_sleep")

----------------------------------------------------------------------------
(* Sniper._relist_loop, as runs between awaits. *)

RFinish(c, res) == [c EXCEPT !.t = [NewRelistTask EXCEPT !.pc = "done", !.result = res]]

\* Mutant: the relist loop does not look at the run state.
relist_loop_top_any_state(c) ==
    IF stop_event THEN RFinish(c, "ok")
    ELSE Call(c, "clear_sold", 0, 0, 0)

\* Lines 355-362: the head of the while loop.
relist_loop_top(c) ==
    IF stop_event THEN RFinish(c, "ok")
    ELSE IF c.state # "running" THEN At(c, "poll_sleep")
    ELSE Call(c, "clear_sold", 0, 0, 0)

\* Mutant: a sale is not counted in total_sales.
clear_sold_return_uncounted(c, earned) ==
    LET e == [c EXCEPT !.t.earned = earned, !.t.sale_args = <<>>] IN
    IF earned > 0
    THEN LET d == [e EXCEPT !.stats.total_earned = @ + earned]
         IN  IF config.on_sale
             THEN At([d EXCEPT !.t.sale_args = <<earned, profit(d.stats)>>], "on_sale")
             ELSE Call(d, "relist_all", 0, 0, 0)
    ELSE Call(e, "relist_all", 0, 0, 0)

\* Lines 362-372: clear_sold returned earned.
clear_sold_return(c, earned) ==
    LET e == [c EXCEPT !.t.earned = earned, !.t.sale_args = <<>>] IN
    IF earned > 0
    THEN LET d == [e EXCEPT !.stats.total_earned = @ + earned,
                            !.stats.total_sales = @ + 1]
         IN  IF config.on_sale
             THEN At([d EXCEPT !.t.sale_args = <<earned, profit(d.stats)>>], "on_sale")
             ELSE Call(d, "relist_all", 0, 0, 0)
    ELSE Call(e, "relist_all", 0, 0, 0)

\* Lines 378-380: the except clause of _relist_loop.
relist_handle(c, exc) ==
    LET u == [c EXCEPT !.exc = exc] IN
    IF exc = "CancelledError" THEN RFinish(u, "cancelled") ELSE At(u, "error_sleep")

----------------------------------------------------------------------------
(* Steps of a search-loop task *)

Fatal == {"CaptchaError", "TransferBanError"}

\* The context a resumed task runs in: the pending cancellation is delivered.
Resumed(t) == Ctx([t EXCEPT !.cancel = FALSE])

\* Observation: a fatal response reached call op of the task.
Saw(c, op, exc) == IF exc \in Fatal THEN [c EXCEPT !.t.fatal_at = op] ELSE c

IssuedBy(kind, i, c) ==
    IF c.call.op = "none" THEN NoCall ELSE [c.call EXCEPT !.kind = kind, !.task = i]

\* Task i of the search loops has run to its next await, giving c.
SRun(i, c) ==
    /\ (c.call.op = "search" => stats.total_searches < MaxSearches)
    /\ stask' = [stask EXCEPT ![i] = c.t]
    /\ state' = c.state
    /\ stats' = c.stats
    /\ hourly' = c.hourly
    /\ issued' = IssuedBy("search", i, c)
    /\ last' = Event("search", i, c.exc)
    /\ UNCHANGED <<config, targets, stop_event, search_task, relist_task, rtask, ctl, quiesced>>

SAt(i, pc) == i \in 1..Len(stask) /\ stask[i].pc = pc

\* A sleep or callback of the try block ends: cont is what runs if it was not cancelled.
SWake(i, cont) ==
    LET t == stask[i] IN
    SRun(i, IF t.cancel THEN handle(Resumed(t), "CancelledError") ELSE cont)

\* The task is scheduled for the first time.
SBegin(i, elapsed) ==
    /\ SAt(i, "new")
    /\ SWake(i, search_loop_top(Resumed(stask[i]), elapsed))

\* Lines 200-201: the sleep(1) taken while the state is not RUNNING ends.
SPollWake(i, elapsed) ==
    /\ SAt(i, "poll_sleep")
    /\ SWake(i, search_loop_top(Resumed(stask[i]), elapsed))

\* Lines 205-206: the sleep(5) taken when _check_limits refused ends.
SLimitWake(i, elapsed) ==
    /\ SAt(i, "limit_sleep")
    /\ SWake(i, search_loop_top(Resumed(stask[i]), elapsed))

\* Line 247: the sleep(60) after RateLimitError ends.
SRateWake(i, elapsed) ==
    /\ SAt(i, "rate_sleep")
    /\ SWake(i, search_loop_top(Resumed(stask[i]), elapsed))

\* Line 251: the sleep(5) after another exception ends.
SErrorWake(i, elapsed) ==
    /\ SAt(i, "error_sleep")
    /\ SWake(i, search_loop_top(Resumed(stask[i]), elapsed))

\* Line 400: get_tradepile ends.
STradepile(i, status, n, elapsed) ==
    /\ SAt(i, "get_tradepile")
    /\ LET t == stask[i]
           r == client_propagating(Raised(t, status), n)
           c == Saw(Resumed(t), "get_tradepile", r.raise)
       IN  SRun(i, IF r.raise # "none" THEN handle(c, r.raise)
                   ELSE tradepile_return(c, r.value, elapsed))

\* Line 260: search ends.
SSearch(i, status, players) ==
    /\ SAt(i, "search")
    /\ LET t == stask[i]
           r == client_propagating(Raised(t, status), players)
           c == Saw(Resumed(t), "search", r.raise)
       IN  SRun(i, IF r.raise # "none" THEN handle(c, r.raise)
                   ELSE search_return(c, r.value))

\* Line 277: get_credits ends.
SCredits(i, status, coins) ==
    /\ SAt(i, "get_credits")
    /\ LET t == stask[i]
           r == client_propagating(Raised(t, status), coins)
           c == Saw(Resumed(t), "get_credits", r.raise)
       IN  SRun(i, IF r.raise # "none" THEN handle(c, r.raise)
                   ELSE credits_return(c, r.value))

\* Line 283: buy_now ends.
SBuy(i, status, auctionInfo) ==
    /\ SAt(i, "buy_now")
    /\ LET t == stask[i]
           r == client_buy_now(Raised(t, status), auctionInfo)
           c == Saw(Resumed(t), "buy_now", Raised(t, status))
       IN  SRun(i, IF r.raise # "none" THEN handle(c, r.raise)
                   ELSE buy_return(c, r.value))

\* Line 297: the purchase callback ends (raises: it raised an Exception).
SOnPurchase(i, raises) ==
    /\ SAt(i, "on_purchase")
    /\ SWake(i, IF raises THEN handle(Resumed(stask[i]), "Exception")
                ELSE after_purchase(Resumed(stask[i])))

\* Line 314: get_unassigned ends.
SUnassigned(i, status, found) ==
    /\ SAt(i, "get_unassigned")
    /\ LET t == stask[i]
           r == client_propagating(Raised(t, status), found)
           c == Saw(Resumed(t), "get_unassigned", r.raise)
       IN  SRun(i, IF r.raise # "none" THEN handle(c, r.raise)
                   ELSE unassigned_return(c, r.value))

\* Lines 325-326: send_to_tradepile ends; its result is not read.
SSend(i, status) ==
    /\ SAt(i, "send_to_tradepile")
    /\ LET t == stask[i]
           r == client_send_to_tradepile(Raised(t, status), TRUE)
           c == Saw(Resumed(t), "send_to_tradepile", Raised(t, status))
       IN  SRun(i, IF r.raise # "none" THEN handle(c, r.raise)
                   ELSE At(c, "settle_sleep"))

\* Line 326: the sleep(0.5) ends.
SSettleWake(i) ==
    /\ SAt(i, "settle_sleep")
    /\ SWake(i, settle_wake(Resumed(stask[i])))

\* Lines 339-351 and 303: list_item ends; _search_and_buy returns True.
SList(i, status) ==
    /\ SAt(i, "list_item")
    /\ LET t == stask[i]
           r == client_list_item(Raised(t, status), 1)
           c == Saw(Resumed(t), "list_item", Raised(t, status))
       IN  SRun(i, IF r.raise # "none" THEN handle(c, r.raise)
                   ELSE after_search_and_buy(c, TRUE))

\* Line 307: the sleep(buy_delay) ends.
SBuyDelayWake(i) ==
    /\ SAt(i, "buy_delay")
    /\ SWake(i, buy_delay_wake(Resumed(stask[i])))

\* Line 225: the cooldown sleep(pause_duration) ends.
SPauseWake(i) ==
    /\ SAt(i, "pause_sleep")
    /\ SWake(i, pause_wake(Resumed(stask[i])))

\* Line 229: the sleep(search_interval) ends.
SIntervalWake(i, elapsed) ==
    /\ SAt(i, "interval_sleep")
    /\ SWake(i, for_next(Resumed(stask[i]), elapsed))

\* Lines 235-236 and 242-243: the error callback ends; an exception it raises
\* leaves the except clause and ends the task.
SOnError(i, raises) ==
    /\ SAt(i, "on_error")
    /\ LET t == stask[i] IN
       SRun(i, IF t.cancel THEN Finish(Resumed(t), "cancelled")
               ELSE IF raises THEN Finish(Resumed(t), "exception")
               ELSE Finish(Resumed(t), "ok"))

----------------------------------------------------------------------------
(* Steps of a relist-loop task *)

RRun(i, c) ==
    /\ rtask' = [rtask EXCEPT ![i] = c.t]
    /\ state' = c.state
    /\ stats' = c.stats
    /\ hourly' = c.hourly
    /\ issued' = IssuedBy("relist", i, c)
    /\ last' = Event("relist", i, c.exc)
    /\ UNCHANGED <<config, targets, stop_event, search_task, relist_task, stask, ctl, quiesced>>

RAt(i, pc) == i \in 1..Len(rtask) /\ rtask[i].pc = pc

RWake(i, cont) ==
    LET t == rtask[i] IN
    RRun(i, IF t.cancel THEN relist_handle(Resumed(t), "CancelledError") ELSE cont)

\* The task is scheduled for the first time.
RBegin(i) ==
    /\ RAt(i, "new")
    /\ RWake(i, relist_loop_top(Resumed(rtask[i])))

\* Lines 358-359: the sleep(10) taken while the state is not RUNNING ends.
RPollWake(i) ==
    /\ RAt(i, "poll_sleep")
    /\ RWake(i, relist_loop_top(Resumed(rtask[i])))

\* Line 362: clear_sold ends.
RClearSold(i, status, coins) ==
    /\ RAt(i, "clear_sold")
    /\ (coins > 0 => stats.total_sales < MaxSales)
    /\ LET t == rtask[i]
           r == client_clear_sold(Raised(t, status), coins)
           c == Resumed(t)
       IN  RRun(i, IF r.raise # "none" THEN relist_handle(c, r.raise)
                   ELSE clear_sold_return(c, r.value))

\* Line 369: the sale callback ends (raises: it raised an Exception).
ROnSale(i, raises) ==
    /\ RAt(i, "on_sale")
    /\ RWake(i, IF raises THEN relist_handle(Resumed(rtask[i]), "Exception")
                ELSE Call(Resumed(rtask[i]), "relist_all", 0, 0, 0))

\* Lines 372-376: relist_all ends.
RRelistAll(i, status, n) ==
    /\ RAt(i, "relist_all")
    /\ LET t == rtask[i]
           r == client_relist_all(Raised(t, status), n)
           c == Resumed(t)
       IN  RRun(i, IF r.raise # "none" THEN relist_handle(c, r.raise)
                   ELSE At(c, "relist_sleep"))

\* Line 376: the sleep(relist_interval) ends.
RIntervalWake(i) ==
    /\ RAt(i, "relist_sleep")
    /\ RWake(i, relist_loop_top(Resumed(rtask[i])))

\* Line 380: the sleep(30) after an exception ends.
RErrorWake(i) ==
    /\ RAt(i, "error_sleep")
    /\ RWake(i, relist_loop_top(Resumed(rtask[i])))

----------------------------------------------------------------------------
(* The public methods *)

\* Task.cancel(): a no-op on a task that is done.
Cancelled(t) ==
    IF t.pc = "done" THEN t ELSE [t EXCEPT !.cancel = TRUE, !.was_cancelled = TRUE]

\* rt with the task self._relist_task refers to cancelled (lines 174-175).
CancelRelist(rt) ==
    IF relist_task = 0 THEN rt
    ELSE [rt EXCEPT ![relist_task] = Cancelled(@)]

\* Lines 174-179: `await self._relist_task` returns at once iff the task is done.
RelistAwaited(rt) == relist_task = 0 \/ rt[relist_task].pc = "done"

\* Mutant: start() does not look at the target list.
start_guard_any_targets == state # "running"

\* Lines 140-145: start() goes on to launch the tasks.
start_guard == state # "running" /\ targets # <<>>

\* Mutant: start() begins with fresh statistics.
start_stats_fresh(s) == [NewStats EXCEPT !.started_at = TRUE]

\* Line 148: start() stamps the statistics object it has.
start_stats(s) == [s EXCEPT !.started_at = TRUE]

\* Lines 138-157: start(); it launches tasks at most launchable times in a behaviour.
Start(launchable) ==
    /\ ctl = "idle"
    /\ issued' = NoCall
    /\ last' = Event("start", 0, "none")
    /\ IF start_guard
       THEN /\ Len(stask) < launchable
            /\ state' = "running"
            /\ stats' = start_stats(stats)
            /\ stop_event' = FALSE
            /\ stask' = Append(stask, NewSearchTask)
            /\ search_task' = Len(stask) + 1
            /\ IF config.auto_relist
               THEN /\ rtask' = Append(rtask, NewRelistTask)
                    /\ relist_task' = Len(rtask) + 1
               ELSE UNCHANGED <<rtask, relist_task>>
            /\ quiesced' = FALSE
       ELSE UNCHANGED <<state, stats, stop_event, stask, search_task, rtask, relist_task,
                       quiesced>>
    /\ UNCHANGED <<config, targets, hourly, ctl>>

\* Lines 159-181: stop() up to its first await on a task that is not done.
\* Awaiting a task that ended with an exception re-raises it: stop() is left.
Stop ==
    /\ ctl = "idle"
    /\ issued' = NoCall
    /\ last' = Event("stop", 0, "none")
    /\ IF state = "stopped"
       THEN /\ quiesced' = TRUE
            /\ UNCHANGED <<state, stop_event, stask, rtask, ctl>>
       ELSE /\ state' = "stopped"
            /\ stop_event' = TRUE
            /\ stask' = IF search_task = 0 THEN stask
                        ELSE [stask EXCEPT ![search_task] = Cancelled(@)]
            /\ IF search_task # 0 /\ stask[search_task].pc # "done"
               THEN /\ ctl' = "stop_await_search"
                    /\ UNCHANGED <<rtask, quiesced>>
               ELSE IF search_task # 0 /\ stask[search_task].result = "exception"
               THEN /\ ctl' = "idle"
                    /\ quiesced' = TRUE
                    /\ UNCHANGED rtask
               ELSE /\ rtask' = CancelRelist(rtask)
                    /\ ctl' = IF RelistAwaited(rtask) THEN "idle" ELSE "stop_await_relist"
                    /\ quiesced' = RelistAwaited(rtask)
    /\ UNCHANGED <<config, targets, stats, hourly, search_task, relist_task>>

\* Lines 170-179: the search task stop() awaits has ended.
StopSearchAwaited ==
    /\ ctl = "stop_await_search"
    /\ stask[search_task].pc = "done"
    /\ issued' = NoCall
    /\ last' = Event("stop", 0, "none")
    /\ IF stask[search_task].result = "exception"
       THEN /\ ctl' = "idle"
            /\ quiesced' = TRUE
            /\ UNCHANGED rtask
       ELSE /\ rtask' = CancelRelist(rtask)
            /\ ctl' = IF RelistAwaited(rtask) THEN "idle" ELSE "stop_await_relist"
            /\ quiesced' = RelistAwaited(rtask)
    /\ UNCHANGED <<config, targets, state, stats, stop_event, hourly, search_task,
                   relist_task, stask>>

\* Lines 177-181: the relist task stop() awaits has ended; stop() returns.
StopRelistAwaited ==
    /\ ctl = "stop_await_relist"
    /\ rtask[relist_task].pc = "done"
    /\ issued' = NoCall
    /\ last' = Event("stop", 0, "none")
    /\ ctl' = "idle"
    /\ quiesced' = TRUE
    /\ UNCHANGED <<config, targets, state, stats, stop_event, hourly, search_task,
                   relist_task, stask, rtask>>

\* Line 185: the state pause() leaves.
pause_state(s) == "paused"

\* Lines 183-186: pause().
Pause ==
    /\ ctl = "idle"
    /\ state' = pause_state(state)
    /\ issued' = NoCall
    /\ last' = Event("pause", 0, "none")
    /\ UNCHANGED <<config, targets, stats, stop_event, hourly, search_task, relist_task,
                   stask, rtask, ctl, quiesced>>

\* Line 190: the state resume() leaves.
resume_state(s) == "running"

\* Lines 188-191: resume().
Resume ==
    /\ ctl = "idle"
    /\ state' = resume_state(state)
    /\ issued' = NoCall
    /\ last' = Event("resume", 0, "none")
    /\ UNCHANGED <<config, targets, stats, stop_event, hourly, search_task, relist_task,
                   stask, rtask, ctl, quiesced>>

----------------------------------------------------------------------------
(* The target registry *)

\* Mutant: the new target goes before the targets of its priority.
RECURSIVE insert_before_ties(_, _)
insert_before_ties(sorted, t) ==
    IF sorted = <<>> THEN <<t>>
    ELSE IF Head(sorted).priority > t.priority
    THEN <<Head(sorted)>> \o insert_before_ties(Tail(sorted), t)
    ELSE <<t>> \o sorted

\* One step of a stable sort by descending priority: t, which followed the
\* elements of sorted in the list, goes after every element of priority >= its own.
RECURSIVE insert_desc(_, _)
insert_desc(sorted, t) ==
    IF sorted = <<>> THEN <<t>>
    ELSE IF Head(sorted).priority >= t.priority
    THEN <<Head(sorted)>> \o insert_desc(Tail(sorted), t)
    ELSE <<t>> \o sorted

\* Line 127: list.sort(key=priority, reverse=True), a stable sort.
RECURSIVE sort_by_priority(_)
sort_by_priority(lst) ==
    IF lst = <<>> THEN <<>>
    ELSE insert_desc(sort_by_priority(SubSeq(lst, 1, Len(lst) - 1)), lst[Len(lst)])

\* Lines 126-127: add_target appends and sorts.
add_target(lst, target) == sort_by_priority(Append(lst, target))

\* Line 132: remove_target keeps the targets of another name.
remove_target(lst, name) == SelectSeq(lst, LAMBDA t : t.name # name)

\* The id of the next target registered.
RECURSIVE MaxId(_)
MaxId(lst) ==
    IF lst = <<>> THEN 0
    ELSE LET m == MaxId(Tail(lst)) IN IF Head(lst).id > m THEN Head(lst).id ELSE m

\* The for loops iterating the list self.targets referred to go on with that
\* list (old) once self.targets is bound to a new one.
Rebound(old) ==
    [i \in 1..Len(stask) |->
        IF stask[i].live THEN [stask[i] EXCEPT !.live = FALSE, !.lst = old] ELSE stask[i]]

\* Lines 124-128: add_target; the list is changed in place.
AddTarget(target) ==
    /\ ctl = "idle"
    /\ MaxId(targets) < MaxAdds
    /\ targets' = add_target(targets, [target EXCEPT !.id = MaxId(targets) + 1])
    /\ issued' = NoCall
    /\ last' = Event("add_target", 0, "none")
    /\ UNCHANGED <<config, state, stats, stop_event, hourly, search_task, relist_task,
                   stask, rtask, ctl, quiesced>>

\* Lines 130-132: remove_target; self.targets is bound to a new list.
RemoveTarget(name) ==
    /\ ctl = "idle"
    /\ targets' = remove_target(targets, name)
    /\ stask' = Rebound(targets)
    /\ issued' = NoCall
    /\ last' = Event("remove_target", 0, "none")
    /\ UNCHANGED <<config, state, stats, stop_event, hourly, search_task, relist_task,
                   rtask, ctl, quiesced>>

\* Lines 134-136: clear_targets; the list is emptied in place.
ClearTargets ==
    /\ ctl = "idle"
    /\ targets' = <<>>
    /\ issued' = NoCall
    /\ last' = Event("clear_targets", 0, "none")
    /\ UNCHANGED <<config, state, stats, stop_event, hourly, search_task, relist_task,
                   stask, rtask, ctl, quiesced>>

----------------------------------------------------------------------------
(* Construction and the inputs of the environment *)

\* A SniperConfig with small limits.  The callbacks on_purchase, on_sale and
\* on_error are given or left None.
Config(auto_sell, auto_relist, on_purchase, on_sale) ==
    [max_purchases |-> 2, max_active_sales |-> 1, min_coins_reserve |-> 1,
     auto_sell |-> auto_sell, pause_after_purchases |-> 2, max_searches_per_hour |-> 2,
     auto_relist |-> auto_relist, on_purchase |-> on_purchase, on_sale |-> on_sale,
     on_error |-> TRUE]

\* Two targets as add_target leaves them: descending priority.
TwoTargets == << Target("a", 1, 0, TRUE, 2), Target("b", 2, 0, TRUE, 1) >>

\* One target, disabled: the search loop polls the limits and searches nothing.
IdleTargets == << Target("a", 1, 0, FALSE, 1) >>

Prices == 0..MaxPrice

\* What a search can return: up to MaxResults listings, trade ids in the market's order.
Listings ==
    UNION { { [j \in 1..n |-> Player(j, f[j])] : f \in [1..n -> Prices] } : n \in 0..MaxResults }

\* A search that finds nothing or one listing at price 1.
FewListings == { <<>>, << Player(1, 1) >> }

\* A response: the status and, with status 200, one of the bodies.
Responses(bodies) ==
    { <<"200", b>> : b \in bodies } \cup { <<s, CHOOSE b \in bodies : TRUE>> : s \in Statuses \ {"200"} }

\* Lines 113-122: Sniper.__init__, with the configuration and the targets registered.
Construct(cfg, tgts) ==
    /\ config = cfg
    /\ targets = tgts
    /\ state = "stopped"
    /\ stats = NewStats
    /\ stop_event = FALSE
    /\ hourly = 0
    /\ search_task = 0
    /\ relist_task = 0
    /\ stask = <<>>
    /\ rtask = <<>>
    /\ ctl = "idle"
    /\ issued = NoCall
    /\ last = Event("none", 0, "none")
    /\ quiesced = FALSE

\* Steps of the while loop of _search_loop outside the for loop.
LoopStep ==
    \/ \E i \in 1..Len(stask), e \in BOOLEAN : SBegin(i, e)
    \/ \E i \in 1..Len(stask), e \in BOOLEAN : SLimitWake(i, e)
    \/ \E i \in 1..Len(stask), e \in BOOLEAN : SRateWake(i, e)
    \/ \E i \in 1..Len(stask), e \in BOOLEAN : SErrorWake(i, e)
    \/ \E i \in 1..Len(stask), r \in Responses(0..1), e \in BOOLEAN :
           STradepile(i, r[1], r[2], e)
    \/ \E i \in 1..Len(stask), b \in BOOLEAN : SOnError(i, b)

\* The search loop polls the run state while it is not RUNNING.
PollStep == \E i \in 1..Len(stask), e \in BOOLEAN : SPollWake(i, e)

\* Steps of the for loop and of _search_and_buy, the market answering
\* searches from listings and balances from balances.
CycleStep(listings, balances) ==
    \/ \E i \in 1..Len(stask), r \in Responses(listings) : SSearch(i, r[1], r[2])
    \/ \E i \in 1..Len(stask), r \in Responses(balances) : SCredits(i, r[1], r[2])
    \/ \E i \in 1..Len(stask), r \in Responses(BOOLEAN) : SBuy(i, r[1], r[2])
    \/ \E i \in 1..Len(stask) : SBuyDelayWake(i)
    \/ \E i \in 1..Len(stask) : SPauseWake(i)
    \/ \E i \in 1..Len(stask), e \in BOOLEAN : SIntervalWake(i, e)

\* Steps of _auto_sell_player and of the purchase callback.
SellStep ==
    \/ \E i \in 1..Len(stask), b \in BOOLEAN : SOnPurchase(i, b)
    \/ \E i \in 1..Len(stask), r \in Responses(BOOLEAN) : SUnassigned(i, r[1], r[2])
    \/ \E i \in 1..Len(stask), s \in Statuses : SSend(i, s)
    \/ \E i \in 1..Len(stask) : SSettleWake(i)
    \/ \E i \in 1..Len(stask), s \in Statuses : SList(i, s)

RelistStep ==
    \/ \E i \in 1..Len(rtask) : RBegin(i)
    \/ \E i \in 1..Len(rtask) : RPollWake(i)
    \/ \E i \in 1..Len(rtask), r \in Responses(0..1) : RClearSold(i, r[1], r[2])
    \/ \E i \in 1..Len(rtask), r \in Responses(0..1) : RRelistAll(i, r[1], r[2])
    \/ \E i \in 1..Len(rtask) : RIntervalWake(i)

\* Steps of the sale callback and of the except clause of _relist_loop.
SaleStep ==
    \/ \E i \in 1..Len(rtask), b \in BOOLEAN : ROnSale(i, b)
    \/ \E i \in 1..Len(rtask) : RErrorWake(i)

----------------------------------------------------------------------------
(* SpecBuy: one Sniper with two targets, auto-sell and the purchase callback, *)
(* no relist loop; the market returns every list of up to MaxResults         *)
(* listings and every balance.  The caller starts it once.                    *)

InitBuy == Construct(Config(TRUE, FALSE, TRUE, FALSE), TwoTargets)

NextBuy == Start(1) \/ LoopStep \/ CycleStep(Listings, Prices) \/ SellStep

SpecBuy == InitBuy /\ [][NextBuy]_vars

----------------------------------------------------------------------------
(* SpecSearch: the search loop under start, stop, pause and resume; two    *)
(* targets, no auto-sell, no relist loop, few listings.                     *)

InitSearch == Construct(Config(FALSE, FALSE, FALSE, FALSE), TwoTargets)

NextSearch ==
    \/ Start(MaxLaunch)
    \/ Stop
    \/ StopSearchAwaited
    \/ Pause
    \/ Resume
    \/ LoopStep
    \/ PollStep
    \/ CycleStep(FewListings, {MaxPrice})

SpecSearch == InitSearch /\ [][NextSearch]_vars

\* SpecLeak: as SpecSearch, with one more launch by start().
NextLeak ==
    \/ Start(MaxLaunch + 1)
    \/ Stop
    \/ StopSearchAwaited
    \/ Pause
    \/ Resume
    \/ LoopStep
    \/ PollStep
    \/ CycleStep(FewListings, {MaxPrice})

SpecLeak == InitSearch /\ [][NextLeak]_vars

----------------------------------------------------------------------------
(* SpecRelist: both loops under start, stop, pause and resume; the only    *)
(* target is disabled, so the search loop only polls the limits.            *)

InitRelist == Construct(Config(FALSE, TRUE, FALSE, TRUE), IdleTargets)

NextRelist ==
    \/ Start(MaxLaunch)
    \/ Stop
    \/ StopSearchAwaited
    \/ StopRelistAwaited
    \/ Pause
    \/ Resume
    \/ LoopStep
    \/ PollStep
    \/ RelistStep
    \/ SaleStep

SpecRelist == InitRelist /\ [][NextRelist]_vars

\* Steps of the search loop with a provider that answers every call: the
\* tradepile is empty, a search finds one listing at price 1, the balance is
\* MaxPrice, and a buy succeeds or fails.
AnsweredSearchStep ==
    \E i \in 1..Len(stask) :
        \/ SBegin(i, FALSE)
        \/ SPollWake(i, FALSE)
        \/ SLimitWake(i, FALSE)
        \/ STradepile(i, "200", 0, FALSE)
        \/ SSearch(i, "200", << Player(1, 1) >>)
        \/ SCredits(i, "200", MaxPrice)
        \/ \E b \in BOOLEAN : SBuy(i, "200", b)
        \/ SBuyDelayWake(i)
        \/ SPauseWake(i)
        \/ SIntervalWake(i, FALSE)

\* Steps of the relist loop with a provider that answers every call.
AnsweredRelistStep ==
    \E i \in 1..Len(rtask) :
        \/ RBegin(i)
        \/ RPollWake(i)
        \/ \E coins \in 0..1 : RClearSold(i, "200", coins)
        \/ RRelistAll(i, "200", 0)
        \/ RIntervalWake(i)

\* Statistics over restarts: both loops, the caller starting the engine up to
\* twice and stopping, pausing and resuming it.
InitStats == Construct(Config(FALSE, TRUE, FALSE, FALSE), TwoTargets)

NextStats ==
    \/ Start(2)
    \/ Stop
    \/ StopSearchAwaited
    \/ StopRelistAwaited
    \/ Pause
    \/ Resume
    \/ AnsweredSearchStep
    \/ AnsweredRelistStep

SpecStats == InitStats /\ [][NextStats]_vars

\* Pricing: one target with a fixed ask drawn from 1..MaxAsk, and a provider
\* that answers every call, so that the one listing found is bought and listed.
InitPrice ==
    \E ask \in 1..MaxAsk :
        Construct(Config(TRUE, FALSE, FALSE, FALSE), << Target("a", 1, ask, TRUE, 1) >>)

NextPrice ==
    \/ Start(1)
    \/ \E i \in 1..Len(stask) :
           \/ SBegin(i, FALSE)
           \/ STradepile(i, "200", 0, FALSE)
           \/ SSearch(i, "200", << Player(1, 1) >>)
           \/ SCredits(i, "200", MaxPrice)
           \/ SBuy(i, "200", TRUE)
           \/ SUnassigned(i, "200", TRUE)
           \/ SSend(i, "200")
           \/ SSettleWake(i)
           \/ SList(i, "200")

SpecPrice == InitPrice /\ [][NextPrice]_vars

\* Sales: both loops with the sale callback given, the caller starting the
\* engine once and pausing and resuming it; the search loop is always
\* answered, clear_sold and relist_all end in every way, and clear_sold
\* returns every amount up to MaxPrice.
InitSales == Construct(Config(FALSE, TRUE, FALSE, TRUE), TwoTargets)

NextSales ==
    \/ Start(1)
    \/ Pause
    \/ Resume
    \/ AnsweredSearchStep
    \/ \E i \in 1..Len(rtask) :
           \/ RBegin(i)
           \/ RPollWake(i)
           \/ \E r \in Responses(0..MaxPrice) : RClearSold(i, r[1], r[2])
           \/ \E r \in Responses(0..1) : RRelistAll(i, r[1], r[2])
           \/ RIntervalWake(i)
    \/ SaleStep

SpecSales == InitSales /\ [][NextSales]_vars

\* The purchase cap: a Sniper with two targets and max_purchases = 1, the
\* search loop alone, always answered; the caller starts it once and pauses
\* and resumes it.
InitCap == Construct([Config(FALSE, FALSE, FALSE, FALSE) EXCEPT !.max_purchases = 1],
                     TwoTargets)

NextCap == Start(1) \/ Pause \/ Resume \/ AnsweredSearchStep

SpecCap == InitCap /\ [][NextCap]_vars

\* Markup: one target without an ask of its own, whose price limit is any
\* valid market price up to MaxAsk; the market offers one listing at exactly
\* that price, the balance covers it, and the purchase and the auto-sell go
\* through.
ValidPrices == { p \in 1..MaxAsk : round_price(p) = p }

InitMarkup ==
    \E p \in ValidPrices :
        Construct(Config(TRUE, FALSE, FALSE, FALSE), << Target("a", p, 0, TRUE, 1) >>)

NextMarkup ==
    \/ Start(1)
    \/ \E i \in 1..Len(stask) :
           \/ SBegin(i, FALSE)
           \/ STradepile(i, "200", 0, FALSE)
           \/ SSearch(i, "200", << Player(1, targets[1].max_buy_price) >>)
           \/ SCredits(i, "200", targets[1].max_buy_price + config.min_coins_reserve)
           \/ SBuy(i, "200", TRUE)
           \/ SUnassigned(i, "200", TRUE)
           \/ SSend(i, "200")
           \/ SSettleWake(i)
           \/ SList(i, "200")

SpecMarkup == InitMarkup /\ [][NextMarkup]_vars

\* One tick against the registry: a Sniper constructed without targets, the
\* caller registering enabled and disabled targets, removing targets and
\* starting the engine once; every search finds nothing.
TickTargets == { Target("a", 1, 0, TRUE, 1), Target("b", 1, 0, TRUE, 2),
                 Target("b", 1, 0, FALSE, 2) }

InitTick == Construct(Config(FALSE, FALSE, FALSE, FALSE), <<>>)

NextTick ==
    \/ \E t \in TickTargets : AddTarget(t)
    \/ \E n \in {"a", "b"} : RemoveTarget(n)
    \/ Start(1)
    \/ \E i \in 1..Len(stask) :
           \/ SBegin(i, FALSE)
           \/ STradepile(i, "200", 0, FALSE)
           \/ SSearch(i, "200", <<>>)
           \/ SIntervalWake(i, FALSE)

SpecTick == InitTick /\ [][NextTick]_vars

\* The targets a caller registers.
Names == {"a", "b"}
Priorities == {1, 2}
NewTargets == { Target(n, 1, 0, FALSE, p) : n \in Names, p \in Priorities }

\* The registry: a Sniper constructed without targets, the caller registering
\* and removing targets (disabled ones: the search loop polls the limits and
\* searches nothing) and starting and stopping the engine.
InitTargets == Construct(Config(FALSE, FALSE, FALSE, FALSE), <<>>)

NextTargets ==
    \/ \E t \in NewTargets : AddTarget(t)
    \/ \E n \in Names : RemoveTarget(n)
    \/ ClearTargets
    \/ Start(MaxLaunch)
    \/ Stop
    \/ StopSearchAwaited
    \/ LoopStep

SpecTargets == InitTargets /\ [][NextTargets]_vars

----------------------------------------------------------------------------
(* Properties *)

\* The candidate task i of the search loops is at.
Candidate(i) == stask[i].snipeable[stask[i].k]

InCandidateLoop == {"get_credits", "buy_now", "buy_delay"}

\* C1: a buy_now is issued only for a listing the search returned whose price
\* is above 0 and at most the target's max_buy_price, and at that listing's price.
C1_BuyWithinCeiling ==
    issued.op = "buy_now" =>
        /\ issued.trade_id = Candidate(issued.task).trade_id
        /\ issued.price = Candidate(issued.task).buy_now_price
        /\ issued.price > 0
        /\ issued.price <= stask[issued.task].target.max_buy_price

\* C1 witness: a buy_now for the second listing of a result whose first listing was not kept.
C1_Witness ==
    /\ issued.op = "buy_now"
    /\ issued.trade_id = 2
    /\ stask[issued.task].k = 1

C2_Covered ==
    \A i \in 1..Len(stask) :
        /\ stask[i].pc = "buy_now" =>
               stask[i].coins >= Candidate(i).buy_now_price + config.min_coins_reserve
        /\ stask[i].low_seen => stask[i].pc \notin InCandidateLoop

C2_Reread ==
    \A i \in 1..Len(stask) :
        (stask[i].pc # "buy_now" /\ stask'[i].pc = "buy_now") => stask[i].pc = "get_credits"

\* C2: every buy_now is started by the run that received the balance for that
\* candidate, the balance covering price + min_coins_reserve; once a balance
\* below that was read, the call makes no further get_credits or buy_now.
C2_ReserveStopsCycle == []C2_Covered /\ [][C2_Reread]_vars

\* C2 witness: the call returned on a low balance with a candidate left, after a failed buy.
C2_Witness ==
    \E i \in 1..Len(stask) :
        /\ stask[i].pc = "interval_sleep"
        /\ stask[i].low_seen
        /\ stask[i].call_failed = 1
        /\ stask[i].k = 2
        /\ ~stask[i].bought

\* C3: after stop() has returned (and until start() launches again) no step
\* of any loop starts a MarketClient call.
C3_QuietAfterStop == quiesced => issued.op = "none"

\* C4: no search, buy_now, clear_sold or relist_all is started while the state is Paused.
C4_NoCallsWhilePaused ==
    state = "paused" => issued.op \notin {"search", "buy_now", "clear_sold", "relist_all"}

\* The calls of the search loop whose exceptions reach the except clauses of _search_loop.
Propagating == {"get_tradepile", "search", "get_credits", "get_unassigned"}

C5_Halted ==
    \A i \in 1..Len(stask) :
        /\ stask[i].nerr <= 1
        /\ stask[i].fatal_at \in Propagating =>
               stask[i].pc \in {"on_error", "done"} /\ stask[i].nerr = 1

C5_Step ==
    \A i \in 1..Len(stask) :
        /\ (stask[i].fatal_at \notin Propagating /\ stask'[i].fatal_at \in Propagating) =>
               /\ state' = "error"
               /\ stask'[i].pc = "on_error"
               /\ stask'[i].nerr = stask[i].nerr + 1
        /\ stask[i].pc = "done" => stask'[i] = stask[i]

\* C5: when CaptchaError or TransferBanError reaches the except clauses of a search
\* loop, the state becomes Error, on_error is invoked once, and the loop is over:
\* the task is in on_error or done, makes no call, and a done task stays done.
C5_FatalHalts == []C5_Halted /\ [][C5_Step]_vars

\* C5 witness: a search task ended after a fatal response to search, having called on_error once.
C5_Witness ==
    \E i \in 1..Len(stask) :
        /\ stask[i].pc = "done"
        /\ stask[i].fatal_at = "search"
        /\ stask[i].nerr = 1
        /\ state = "error"

\* C6: after a fatal response to any of its calls (buy_now included) a search
\* loop is in its fatal handler or done: it is never counted as a failed buy
\* and the loop makes no further call.
C6_FatalNeverAbsorbed ==
    \A i \in 1..Len(stask) :
        stask[i].fatal_at # "none" => stask[i].pc \in {"on_error", "done"}

\* C7: one _search_and_buy call buys at most once; no buy_now or get_credits
\* follows a successful buy; candidate k is tried after exactly k - 1 failed buys,
\* in the market's order; the call returns True iff it bought.
C7_OnePurchasePerCall ==
    \A i \in 1..Len(stask) :
        /\ stask[i].call_bought <= 1
        /\ stask[i].pc \in InCandidateLoop => stask[i].call_bought = 0
        /\ stask[i].pc \in {"get_credits", "buy_now"} => stask[i].k = stask[i].call_failed + 1
        /\ stask[i].pc \in {"interval_sleep", "pause_sleep"} =>
               (stask[i].bought <=> stask[i].call_bought = 1)
        /\ \A a, b \in 1..Len(stask[i].snipeable) :
               a < b => stask[i].snipeable[a].trade_id < stask[i].snipeable[b].trade_id

\* C7 witness: the call returned True after buying its first candidate, the second left untried.
C7_Witness ==
    \E i \in 1..Len(stask) :
        /\ stask[i].pc = "interval_sleep"
        /\ stask[i].bought
        /\ stask[i].k = 1
        /\ Len(stask[i].snipeable) = 2

\* The transitions of the run state listed in the state machine.
ListedTransitions ==
    { <<"stopped", "running">>, <<"running", "stopped">>, <<"running", "paused">>,
      <<"paused", "running">>, <<"running", "error">> }

\* C8: the run state changes only along the listed transitions; pause() and
\* resume() leave it unchanged when called in Stopped or Error.
C8_ListedTransitionsOnly ==
    [][state' # state => <<state, state'>> \in ListedTransitions]_vars

\* C9: a loop task on which stop() has called cancel() starts no MarketClient call.
C9_NoCallAfterCancel ==
    /\ issued.kind = "search" => ~stask[issued.task].was_cancelled
    /\ issued.kind = "relist" => ~rtask[issued.task].was_cancelled

RelistSleeps == {"new", "poll_sleep", "relist_sleep", "error_sleep"}

\* A relist task, not cancelled, runs from a sleep to the head of its loop in
\* this step, the stop signal not given.
RelistAtTop(i) ==
    /\ rtask[i].pc \in RelistSleeps
    /\ rtask'[i] # rtask[i]
    /\ ~rtask[i].cancel
    /\ ~rtask'[i].cancel
    /\ ~stop_event

C10_Step ==
    \A i \in 1..Len(rtask) :
        /\ (RelistAtTop(i) /\ state # "running") => rtask'[i].pc = "poll_sleep"
        /\ (RelistAtTop(i) /\ state = "running") => rtask'[i].pc = "clear_sold"
        /\ (rtask[i].pc # "done" /\ rtask'[i].pc = "done") => (stop_event \/ rtask[i].cancel)

Retryable == {"RateLimitError", "NetworkError", "EAError", "AuthError", "Exception"}

C11_Backoff ==
    last.exc \in Retryable =>
        IF last.by = "search"
        THEN stask[last.task].pc =
                 (IF last.exc = "RateLimitError" THEN "rate_sleep" ELSE "error_sleep")
        ELSE rtask[last.task].pc = "error_sleep"

C11_Step ==
    /\ last'.exc \in Retryable => state' = state
    /\ \A i \in 1..Len(stask) :
           /\ ( /\ stask[i].pc \in {"rate_sleep", "error_sleep"}
                /\ stask'[i] # stask[i]
                /\ ~stask[i].cancel /\ ~stask'[i].cancel /\ ~stop_event )
                  => stask'[i].pc \in {"poll_sleep", "limit_sleep", "get_tradepile"}
           /\ (stask[i].pc # "done" /\ stask'[i].pc = "done")
                  => (stop_event \/ stask[i].cancel \/ stask[i].pc = "on_error")
    /\ \A i \in 1..Len(rtask) :
           /\ ( /\ rtask[i].pc = "error_sleep"
                /\ rtask'[i] # rtask[i]
                /\ ~rtask[i].cancel /\ ~rtask'[i].cancel /\ ~stop_event )
                  => rtask'[i].pc \in {"poll_sleep", "clear_sold"}
           /\ (rtask[i].pc # "done" /\ rtask'[i].pc = "done")
                  => (stop_event \/ rtask[i].cancel)

\* C11: a retryable exception raised into a loop's try block leaves the run state
\* as it was and the task in its backoff sleep (60 s after RateLimitError, 5 s
\* otherwise in the search loop, 30 s in the relist loop); after the sleep the
\* loop is at its head again; a loop ends only on the stop signal, a
\* cancellation or, for the search loop, the fatal handler.
C11_RetryableContinues == []C11_Backoff /\ [][C11_Step]_vars

\* C11 witness: the search loop backs off after a RateLimitError that arrived while Paused.
C11_Witness ==
    /\ last = Event("search", 1, "RateLimitError")
    /\ stask[1].pc = "rate_sleep"
    /\ state = "paused"

\* Where a search task is outside every _search_and_buy call.
OutsideCall == {"new", "poll_sleep", "limit_sleep", "rate_sleep", "error_sleep",
                "get_tradepile", "interval_sleep", "pause_sleep"}

\* No purchase attempt is in flight once the purchases since the last cooldown
\* have reached pause_after_purchases.
C12_CooldownFirst ==
    \A i \in 1..Len(stask) :
        stask[i].pc = "buy_now" => stask[i].since_pause < config.pause_after_purchases

\* Between calls of _search_and_buy the streak counter counts every purchase
\* made since the last cooldown.
C12_StreakCounts ==
    \A i \in 1..Len(stask) :
        stask[i].pc \in OutsideCall => stask[i].consecutive = stask[i].since_pause

\* C12: every successful purchase is counted in the streak, and when the
\* purchases since the last cooldown reach pause_after_purchases the loop
\* sleeps pause_duration before it attempts another purchase.
C12_CooldownAfterStreak == C12_CooldownFirst /\ C12_StreakCounts

\* Where a search task sleeps before the head of the while loop.
BeforeTick == {"new", "poll_sleep", "limit_sleep", "rate_sleep", "error_sleep"}

C13_Allowed ==
    /\ issued.op = "get_tradepile" =>
           /\ stats.total_purchases < config.max_purchases
           /\ hourly < config.max_searches_per_hour
    /\ \A i \in 1..Len(stask) :
           stask[i].live => stask[i].tradepile < config.max_active_sales

C13_Step ==
    \A i \in 1..Len(stask) :
        /\ (stask[i].pc \in BeforeTick /\ stask'[i] # stask[i] /\ ~stask'[i].cancel) =>
               /\ stask'[i].pc \in {"poll_sleep", "limit_sleep", "get_tradepile", "done"}
               /\ stats' = stats
               /\ hourly' \in {hourly, 0}
        /\ (stask[i].pc # "search" /\ stask'[i].pc = "search") =>
               stask[i].pc \in {"get_tradepile", "interval_sleep"}
        /\ (stask[i].pc = "get_tradepile" /\ stask'[i].pc = "search") =>
               stask'[i].tradepile < config.max_active_sales
        /\ (stask[i].pc = "get_tradepile" /\ stask'[i].pc # "search") =>
               stats' = stats /\ hourly' = hourly

\* C13: a tick starts only through _check_limits: get_tradepile is asked only
\* with total_purchases < max_purchases and the hourly counter below its cap,
\* the first search of a tick follows a tradepile below max_active_sales, and
\* _check_limits changes no counter (it only resets the hourly one).
C13_TickGated == []C13_Allowed /\ [][C13_Step]_vars

\* C13 witness: the loop sleeps because the hourly cap is reached, purchases and tradepile allowing.
C13_Witness ==
    \E i \in 1..Len(stask) :
        /\ stask[i].pc = "limit_sleep"
        /\ hourly >= config.max_searches_per_hour
        /\ stats.total_purchases < config.max_purchases
        /\ stask[i].tradepile = 0

C14_Step ==
    /\ last'.by = "start" =>
           /\ issued' = NoCall
           /\ (targets = <<>> \/ state = "running") =>
                  /\ state' = state
                  /\ stask' = stask /\ rtask' = rtask
                  /\ search_task' = search_task /\ relist_task' = relist_task
           /\ (targets # <<>> /\ state = "stopped") =>
                  /\ state' = "running"
                  /\ stask' = Append(stask, NewSearchTask)
                  /\ search_task' = Len(stask')
                  /\ Len(rtask') = Len(rtask) + (IF config.auto_relist THEN 1 ELSE 0)
    /\ (Len(stask') # Len(stask) \/ Len(rtask') # Len(rtask)) =>
           last'.by = "start" /\ targets # <<>>

\* C14: start() called in Stopped with a target registered sets the state to
\* Running and launches the loops; called with no target registered, or while
\* Running, it changes nothing, launches nothing and starts no call; nothing
\* but start() with a target registered launches a loop.
C14_StartNeedsTarget == [][C14_Step]_vars

\* C14 witness: start() has been called on a Sniper without targets, and nothing runs.
C14_Witness ==
    /\ last.by = "start"
    /\ targets = <<>>
    /\ state = "stopped"
    /\ stask = <<>>

\* lst is in descending order of priority, targets of one priority in the order they were added.
Ordered(lst) ==
    \A a, b \in 1..Len(lst) :
        a < b => \/ lst[a].priority > lst[b].priority
                 \/ lst[a].priority = lst[b].priority /\ lst[a].id < lst[b].id

\* part consists of elements of whole, in the order they have in whole.
InOrderOf(part, whole) ==
    \E f \in [1..Len(part) -> 1..Len(whole)] :
        /\ \A k \in 1..Len(part) : part[k] = whole[f[k]]
        /\ \A j, k \in 1..Len(part) : j < k => f[j] < f[k]

C17_Step ==
    /\ last'.by = "add_target" =>
           /\ Len(targets') = Len(targets) + 1
           /\ InOrderOf(targets, targets')
    /\ last'.by = "remove_target" =>
           \E n \in Names :
               /\ \A k \in 1..Len(targets') : targets'[k].name # n
               /\ \A k \in 1..Len(targets) :
                      targets[k].name # n => \E j \in 1..Len(targets') : targets'[j] = targets[k]
               /\ InOrderOf(targets', targets)
    /\ last'.by = "clear_targets" => targets' = <<>>

\* C17: the target list is always in descending priority order, ties in the
\* order of registration; add_target adds one target and keeps the order of
\* the others; remove_target(name) leaves exactly the targets of another
\* name, in their order; clear_targets leaves none.
C17_RegistryOrdered == []Ordered(targets) /\ [][C17_Step]_vars

\* C17 witness: two targets of one priority, added after a target of lower
\* priority that now follows them.
C17_Witness ==
    /\ Len(targets) = 3
    /\ targets[1].priority = targets[2].priority
    /\ targets[1].id < targets[2].id
    /\ targets[3].id < targets[1].id

\* The counters of SniperStats.
Counters == {"total_searches", "total_purchases", "total_sales", "total_spent",
             "total_earned", "failed_purchases"}

\* C15: no step of a loop and no call of start(), stop(), pause() or resume()
\* decreases a counter of the statistics.
C15_CountersNeverDecrease == [][\A f \in Counters : stats'[f] >= stats[f]]_vars

\* C15 witness: the engine has been started a second time with purchases and sales counted.
C15_Witness ==
    /\ last.by = "start"
    /\ Len(stask) = 2
    /\ stats.total_purchases > 0
    /\ stats.total_sales > 0

\* C16 as claimed: profit is earned minus spent, and roi is 0 exactly when nothing was spent.
C16_RoiZeroIffNothingSpent ==
    /\ profit(stats) = stats.total_earned - stats.total_spent
    /\ (roi(stats).num = 0 <=> stats.total_spent = 0)

\* C16 amended: profit is earned minus spent; roi is defined in every state (no
\* division by 0) and is 0 exactly when nothing was spent or earned equals spent.
C16_RoiZeroIffNoProfit ==
    /\ profit(stats) = stats.total_earned - stats.total_spent
    /\ roi(stats).den # 0
    /\ (roi(stats).num = 0 <=>
           (stats.total_spent = 0 \/ stats.total_earned = stats.total_spent))

\* C16 witness: coins were spent and as many earned.
C16_Witness ==
    /\ stats.total_spent > 0
    /\ stats.total_earned = stats.total_spent
    /\ roi(stats).num = 0

\* The ask fixed by the target whose purchase is being listed.
AskOf(i) == stask[i].target.sell_price

\* C18: the ask and the starting bid passed to list_item, which are values of
\* _round_price, are their own rounding.
C18_RoundingIdempotent ==
    issued.op = "list_item" =>
        /\ round_price(issued.price) = issued.price
        /\ round_price(issued.start_price) = issued.start_price

\* C18 witness: an ask of 10,249 is listed at 10,000, the foot of the 250-step tier.
C18_Witness ==
    /\ issued.op = "list_item"
    /\ AskOf(issued.task) = 10249
    /\ issued.price = 10000

\* The step table: 50 below 1,000; 100 below 10,000; 250 below 50,000; 500
\* below 100,000; 1,000 from there.
StepAt(p) ==
    IF p < 1000 THEN 50
    ELSE IF p < 10000 THEN 100
    ELSE IF p < 50000 THEN 250
    ELSE IF p < 100000 THEN 500
    ELSE 1000

\* r is the largest multiple of the step at p that is at most p.
RoundedDown(p, r) == r % StepAt(p) = 0 /\ r <= p /\ p < r + StepAt(p)

\* C19: the ask passed to list_item is the largest multiple of the step at
\* the target's ask that does not exceed it, and the starting bid is the same
\* rounding of 90% of the ask passed.
C19_RoundsDownToStep ==
    issued.op = "list_item" =>
        /\ RoundedDown(AskOf(issued.task), issued.price)
        /\ LET x == (9 * issued.price) \div 10 IN
               /\ 10 * x = 9 * issued.price
               /\ RoundedDown(x, issued.start_price)

\* C19 witness: an ask of 1,234 is listed at 1,200 with a starting bid of 1,000.
C19_Witness ==
    /\ issued.op = "list_item"
    /\ AskOf(issued.task) = 1234
    /\ issued.price = 1200
    /\ issued.start_price = 1000

\* C20 as claimed: an ask of 60,400 is listed at 60,500.
C20_RoundsTo60500 ==
    (issued.op = "list_item" /\ AskOf(issued.task) = 60400) => issued.price = 60500

\* C20 amended: an ask of 60,400 is listed at 60,000.
C20_RoundsTo60000 ==
    (issued.op = "list_item" /\ AskOf(issued.task) = 60400) => issued.price = 60000

\* C20 witness: the ask of 60,400 is being listed.
C20_Witness ==
    /\ issued.op = "list_item"
    /\ AskOf(issued.task) = 60400

\* C21: the targets searched in one run of the for loop are enabled, pairwise
\* distinct, and in descending order of priority.
C21_TickInPriorityOrder ==
    \A i \in 1..Len(stask) :
        LET s == stask[i].searched IN
        /\ \A a \in 1..Len(s) : s[a].enabled
        /\ \A a, b \in 1..Len(s) :
               a < b => s[a].id # s[b].id /\ s[a].priority >= s[b].priority

\* C22: a step of the relist loop in which clear_sold returns proceeds > 0
\* adds exactly the proceeds to total_earned and 1 to total_sales, changes no
\* other statistic and calls on_sale with (proceeds, profit after the
\* update); every other step of the relist loop, relist_all included,
\* leaves the statistics as they are; a step of the search loop leaves
\* total_earned and total_sales as they are.
C22_Step ==
    LET i == last'.task IN
    /\ last'.by = "relist" =>
           LET t == rtask[i]
               u == rtask'[i]
           IN  IF t.pc = "clear_sold" /\ last'.exc = "none" /\ u.earned > 0
               THEN /\ stats' = [stats EXCEPT !.total_earned = @ + u.earned,
                                              !.total_sales = @ + 1]
                    /\ config.on_sale =>
                           /\ u.pc = "on_sale"
                           /\ u.sale_args = <<u.earned,
                                              stats'.total_earned - stats'.total_spent>>
               ELSE stats' = stats
    /\ last'.by = "search" =>
           /\ stats'.total_earned = stats.total_earned
           /\ stats'.total_sales = stats.total_sales
           /\ stats'.started_at = stats.started_at

C22_DisjointWrites == [][C22_Step]_vars

\* A sale of more than one coin is being reported after a purchase was made.
C22_Witness ==
    \E i \in 1..Len(rtask) :
        /\ rtask[i].pc = "on_sale"
        /\ rtask[i].earned > 1
        /\ stats.total_sales = 1
        /\ stats.total_spent > 0
        /\ rtask[i].sale_args = <<rtask[i].earned, rtask[i].earned - stats.total_spent>>

\* C23: in every reachable state total_purchases is at most max_purchases.
C23_PurchasesWithinCap == stats.total_purchases <= config.max_purchases

\* C24: every loop task that has not ended is the one the Sniper refers to,
\* so at most one search-loop task and at most one relist-loop task is live.
C24_LiveTasksReferenced ==
    /\ \A i \in 1..Len(stask) : stask[i].pc # "done" => search_task = i
    /\ \A i \in 1..Len(rtask) : rtask[i].pc # "done" => relist_task = i

\* The price paid for the card that task i is selling.
Paid(i) == buy_price(stask[i], Candidate(i))

\* C25 as stated: with the ask computed from the markup, the ask passed to
\* list_item is strictly greater than the price paid, and the starting bid is
\* not greater than the ask.
C25_AskAbovePaid ==
    issued.op = "list_item" =>
        /\ issued.price > Paid(issued.task)
        /\ issued.start_price <= issued.price

\* C25 amended: the ask is never below the price paid and is strictly
\* greater exactly when the price paid is at least 500 (below 500 the markup
\* is less than one step of 50 and the ask equals the price paid); the
\* starting bid is not greater than the ask.
C25_AskNotBelowPaid ==
    issued.op = "list_item" =>
        /\ issued.price >= Paid(issued.task)
        /\ (issued.price > Paid(issued.task) <=> Paid(issued.task) >= 500)
        /\ issued.start_price <= issued.price

\* C25 witness: a card bought for 450 is listed at 450.
C25_Witness ==
    /\ issued.op = "list_item"
    /\ Paid(issued.task) = 450
    /\ issued.price = 450
    /\ stats.total_spent = 450

====
